---- MODULE Spec2Model ----
(***************************************************************************)
(* Model of the phishing awareness simulator: run() (src/src/main.py) with *)
(* its safety gate, its report-only polling loop and its campaign          *)
(* creation, and the metrics / per-recipient rows / CSV export helpers     *)
(* (src/src/reporting.py).                                                 *)
(*                                                                         *)
(* A Python dict is a function whose DOMAIN is the set of keys present, so *)
(* a missing key is a key outside the DOMAIN and d.get(k, default) is Get. *)
(* Python's None is the value None below; values are strings or None.      *)
(*                                                                         *)
(* The environment: get_campaign either raises GophishError or returns a   *)
(* campaign object (a JSON object whose "results" and "events", when       *)
(* present, are lists); the file at --csv-out can be written.  An empty    *)
(* response body, a null list or an unwritable path end run() with an      *)
(* uncaught exception and are outside the model.                           *)
(***************************************************************************)
EXTENDS Integers, Sequences, FiniteSets, TLC

\* ------------------------------------------------------------------ bounds
MaxResults == 2     \* recipients (result entries) in a generated campaign
MaxEvents == 2      \* events in a generated campaign, all results together
MaxPollCount == 3   \* largest --poll-count tried

\* the polling loop is cut after this many fetches ("until completed" mode
\* has no bound of its own)
MaxFetches == MaxPollCount + 1

\* ------------------------------------------------------- Python values
None == "<None>"

\* bool(v) of a string-or-None value: None and "" are falsy
Truthy(v) == v # None /\ v # ""

\* str(v): the identity on a string, "None" on None
Str(v) == IF v = None THEN "None" ELSE v

\* d.get(k, default)
Get(d, k, default) == IF k \in DOMAIN d THEN d[k] ELSE default

\* ------------------------------------------------------------ main.py
CONFIRM_PHRASE == "I-UNDERSTAND-THIS-IS-AWARENESS"

\* ------------------------------------------------------- reporting.py
OPENED == "Opened Email"
CLICKED == "Clicked Link"

\* _unique_ids collecting into a list: an address is counted once an event
_unique_ids_no_dedupe(events, event_type) ==
    { j \in 1..Len(events) :
        /\ Get(events[j], "type", None) = event_type
        /\ Truthy(Get(events[j], "email", None)) }

\* _unique_ids without the test of the event type
_unique_ids_any_type(events, event_type) ==
    { Str(Get(events[i], "email", None)) :
        i \in { j \in 1..Len(events) : Truthy(Get(events[j], "email", None)) } }

\* _unique_ids without the test of the email
_unique_ids_keep_missing(events, event_type) ==
    { Str(Get(events[i], "email", None)) :
        i \in { j \in 1..Len(events) : Get(events[j], "type", None) = event_type } }

\* the set comprehension of _unique_ids
_unique_ids(events, event_type) ==
    { Str(Get(events[i], "email", None)) :
        i \in { j \in 1..Len(events) :
                  /\ Get(events[j], "type", None) = event_type
                  /\ Truthy(Get(events[j], "email", None)) } }

\* all_events = []; for result in results: all_events.extend(result.get("events", []))
RECURSIVE ExtendAll(_, _)
ExtendAll(all_events, results) ==
    IF results = <<>> THEN all_events
    ELSE ExtendAll(all_events \o Get(Head(results), "events", <<>>), Tail(results))

\* sum(event.get("type") == event_type for event in all_events)
RECURSIVE RawCount(_, _)
RawCount(all_events, event_type) ==
    IF all_events = <<>> THEN 0
    ELSE (IF Get(Head(all_events), "type", None) = event_type THEN 1 ELSE 0)
         + RawCount(Tail(all_events), event_type)

\* the rate without the guard on total_recipients
Rate_unguarded(count, total) == [num |-> count * 100, den |-> total]

\* A rate is the exact quotient num/den, in percent.  (opened/total)*100 in
\* floating point rounds, but monotonically: it is within [0,100] exactly when
\* the quotient is.
Rate(count, total) == IF total # 0 THEN [num |-> count * 100, den |-> total]
                      ELSE [num |-> 0, den |-> 1]

compute_metrics(campaign, unique_opens_only, unique_clicks_only) ==
    LET results == Get(campaign, "results", <<>>)
        total_recipients == Len(results)
        all_events == ExtendAll(<<>>, results)
        opened_count == IF unique_opens_only
                        THEN Cardinality(_unique_ids(all_events, OPENED))
                        ELSE RawCount(all_events, OPENED)
        clicked_count == IF unique_clicks_only
                         THEN Cardinality(_unique_ids(all_events, CLICKED))
                         ELSE RawCount(all_events, CLICKED)
    IN [ total_recipients |-> total_recipients,
         opened |-> opened_count,
         clicked |-> clicked_count,
         open_rate |-> Rate(opened_count, total_recipients),
         click_rate |-> Rate(clicked_count, total_recipients) ]

\* _extract_event_times without the test of the time
RECURSIVE _extract_event_times_any_time(_, _)
_extract_event_times_any_time(events, event_type) ==
    IF events = <<>> THEN <<>>
    ELSE LET event == Head(events)
             rest == _extract_event_times_any_time(Tail(events), event_type)
         IN IF Get(event, "type", None) = event_type
            THEN <<Str(Get(event, "time", None))>> \o rest
            ELSE rest

\* the list comprehension of _extract_event_times
RECURSIVE _extract_event_times(_, _)
_extract_event_times(events, event_type) ==
    IF events = <<>> THEN <<>>
    ELSE LET event == Head(events)
             rest == _extract_event_times(Tail(events), event_type)
         IN IF Get(event, "type", None) = event_type /\ Truthy(Get(event, "time", None))
            THEN <<Str(Get(event, "time", None))>> \o rest
            ELSE rest

EmptyDict == [k \in {} |-> None]

recipient_row(campaign, result) ==
    LET events == Get(result, "events", <<>>)
        opened_times == _extract_event_times(events, OPENED)
        clicked_times == _extract_event_times(events, CLICKED)
        first_open == IF opened_times # <<>> THEN opened_times[1] ELSE ""
        first_click == IF clicked_times # <<>> THEN clicked_times[1] ELSE ""
        last_event == IF events # <<>> THEN events[Len(events)] ELSE EmptyDict
    IN [ campaign_name |-> Get(campaign, "name", "<unknown>"),
         campaign_status |-> Get(campaign, "status", "<unknown>"),
         recipient_email |-> Get(result, "email", ""),
         recipient_status |-> Get(result, "status", ""),
         open_count |-> Len(opened_times),
         click_count |-> Len(clicked_times),
         first_open_time |-> first_open,
         first_click_time |-> first_click,
         last_event_type |-> Get(last_event, "type", ""),
         last_event_time |-> Get(last_event, "time", "") ]

\* rows = []; for result in campaign.get("results", []): rows.append({...})
RECURSIVE AppendRows(_, _, _)
AppendRows(rows, campaign, results) ==
    IF results = <<>> THEN rows
    ELSE AppendRows(Append(rows, recipient_row(campaign, Head(results))),
                    campaign, Tail(results))

build_recipient_rows(campaign) ==
    AppendRows(<<>>, campaign, Get(campaign, "results", <<>>))

fieldnames ==
    << "campaign_name", "campaign_status", "recipient_email", "recipient_status",
       "open_count", "click_count", "first_open_time", "first_click_time",
       "last_event_type", "last_event_time" >>

\* one CSV record: the row's values in the order of fieldnames, each written
\* as text (csv.DictWriter writes str(value); the two counts are integers)
CsvLine(row) ==
    << row.campaign_name, row.campaign_status, row.recipient_email,
       row.recipient_status, ToString(row.open_count), ToString(row.click_count),
       row.first_open_time, row.first_click_time, row.last_event_type,
       row.last_event_time >>

RECURSIVE WriteRows(_, _)
WriteRows(lines, rows) ==
    IF rows = <<>> THEN lines
    ELSE WriteRows(Append(lines, CsvLine(Head(rows))), Tail(rows))

\* export_csv opening the file with mode "a"
export_csv_append(old, rows) ==
    [exists |-> TRUE, lines |-> WriteRows(old.lines \o <<fieldnames>>, rows)]

\* A file is [exists, lines].  The file after export_csv(rows, output_path):
\* open(output_path, "w") drops whatever was there (old), writeheader() writes
\* the header line, writerows() one line a row.
export_csv(old, rows) ==
    [exists |-> TRUE, lines |-> WriteRows(<<fieldnames>>, rows)]

\* ------------------------------------------------------------- inputs
\* Campaign payloads as the API returns them: a dict with "name", "status" and
\* "results"; a result has "email", "status" and "events"; an event has "type",
\* "email" and "time".  Any key but an event's type may be missing.
EventTypes == {OPENED, CLICKED, "Email Sent"}
EventEmails == {None, "", "a@x", "b@x"}      \* None: the key is missing

MkEvent(type, email, time) ==
    [k \in {"type"} \cup (IF email = None THEN {} ELSE {"email"})
                    \cup (IF time = None THEN {} ELSE {"time"}) |->
        IF k = "type" THEN type ELSE IF k = "email" THEN email ELSE time]

RecipientEmail(i) == IF i = 1 THEN "a@x" ELSE IF i = 2 THEN "b@x" ELSE "c@x"

\* the events of recipient i among the tagged events evs, in order
RECURSIVE EventsOf(_, _)
EventsOf(i, evs) ==
    IF evs = <<>> THEN <<>>
    ELSE (IF Head(evs).owner = i THEN <<Head(evs).event>> ELSE <<>>)
         \o EventsOf(i, Tail(evs))

\* omit: an empty "events" / "results" list is a missing key instead
MkResult(i, evs, omit) ==
    LET events == EventsOf(i, evs)
    IN [k \in {"email", "status"}
              \cup (IF events = <<>> /\ omit THEN {} ELSE {"events"}) |->
          IF k = "email" THEN RecipientEmail(i)
          ELSE IF k = "status" THEN "Email Sent" ELSE events]

MkCampaign(status, n, evs, omit) ==
    [k \in {"name"} \cup (IF status = None THEN {} ELSE {"status"})
                    \cup (IF n = 0 /\ omit THEN {} ELSE {"results"}) |->
        IF k = "name" THEN "Awareness Q1"
        ELSE IF k = "status" THEN status
        ELSE [i \in 1..n |-> MkResult(i, evs, omit)]]

\* events tagged with the recipient they belong to
TaggedEvents(n, events) == [owner : 1..n, event : events]

\* campaign c is one of n recipients and k events drawn from the set events
IsCampaign(c, status, n, k, events) ==
    \E omit \in BOOLEAN :
        \E evs \in [1..k -> TaggedEvents(n, events)] :
            c = MkCampaign(status, n, evs, omit)

\* the events the metrics engine tells apart: every type and email, one time
MetricEvents == {MkEvent(t, e, "t1") : t \in EventTypes, e \in EventEmails}

\* the events the row builder tells apart: every type, with the time missing,
\* empty or one of two values; the email of the first recipient
EventTimes == {None, "", "t1", "t2"}         \* None: the key is missing
RowEvents == {MkEvent(t, "a@x", tm) : t \in EventTypes, tm \in EventTimes}

\* what a poll may fetch: every status the loop tells apart (the literal
\* "Completed", another spelling, another state, none), with no results or
\* with one recipient who opened twice
Statuses == {"In progress", "Completed", "completed", None}
TwoOpens == << [owner |-> 1, event |-> MkEvent(OPENED, "a@x", "t1")],
               [owner |-> 1, event |-> MkEvent(OPENED, "a@x", "t2")] >>
PollPayloads == {MkCampaign(st, 0, <<>>, TRUE) : st \in Statuses}
                \cup {MkCampaign(st, 1, TwoOpens, FALSE) : st \in Statuses}

\* the file at --csv-out before the run: none, or left by an earlier run
NoFile == [exists |-> FALSE, lines |-> <<>>]
StaleFile == [exists |-> TRUE, lines |-> <<fieldnames, <<"stale">>>>]

\* -------------------------------------------------------------- state
VARIABLES
    args,             \* the parsed command line (argparse namespace)
    config,           \* the loaded AppConfig (the fields run() reads)
    pc,               \* where run() is
    exit_code,        \* what run() returned, once pc = "done"
    poll_interval,    \* local of run()
    remaining_polls,  \* local of run()
    campaign,         \* local of run(): the last payload fetched
    metrics,          \* local of run(): the last CampaignMetrics
    rows,             \* local of run(): the last rows built
    csv_file,         \* the file at args.csv_out
    fetches,          \* calls of client.get_campaign
    reports,          \* reports printed
    writes,           \* calls of export_csv
    sleeps,           \* calls of time.sleep
    completed_seen,   \* fetches that returned status "Completed"
    stderr,           \* the error run() printed, "" when none
    csv_before,       \* the file at args.csv_out as the run found it
    resolved,         \* calls of _build_campaign_payload
    created           \* calls of client.create_campaign

vars == << args, config, pc, exit_code, poll_interval, remaining_polls, campaign,
           metrics, rows, csv_file, fetches, reports, writes, sleeps,
           completed_seen, stderr, csv_before,
                    resolved, created >>

counters == << fetches, reports, writes, sleeps, completed_seen, csv_before,
                    resolved, created >>
locals == << poll_interval, remaining_polls, campaign, metrics, rows >>

\* 0 stands for a missing --campaign-id (None): both are falsy at line 161
CampaignIds == {0, 7}
\* None stands for a missing --csv-out
CsvOuts == {None, "out.csv"}
PollIntervals == {-1, 0, 5}
PollCounts == -1..MaxPollCount

\* the messages run() prints to stderr before it returns 1
ConfigErr == "Config error"
SafetyErr == "Safety check failed"
CampaignIdErr == "--campaign-id is required in report-only mode"
FetchErr == "Failed to fetch campaign"
ResolveErr == "Failed to resolve campaign resources"
CreateErr == "Failed to create campaign"

\* print(msg, file=sys.stderr); return 1
Fail(msg) == pc' = "done" /\ exit_code' = 1 /\ stderr' = msg

\* return 0
Return0 == pc' = "done" /\ exit_code' = 0 /\ stderr' = stderr

Continue(to) == pc' = to /\ UNCHANGED << exit_code, stderr >>

InitLocals ==
    /\ pc = "load_config"
    /\ exit_code = -1
    /\ poll_interval = 0
    /\ remaining_polls = 0
    /\ campaign = EmptyDict
    /\ metrics = EmptyDict
    /\ rows = <<>>
    /\ fetches = 0 /\ reports = 0 /\ writes = 0 /\ sleeps = 0
    /\ completed_seen = 0
    /\ stderr = ""
    /\ csv_before = csv_file
    /\ resolved = 0 /\ created = 0

\* run() started with --report-only
Init ==
    /\ args \in [ report_only : {TRUE}, dry_run : {FALSE}, confirm : {""},
                  campaign_id : CampaignIds, csv_out : CsvOuts,
                  poll_interval : PollIntervals, poll_count : PollCounts ]
    /\ config \in [ allow_live_send : {FALSE}, dry_run : {TRUE},
                    unique_opens_only : BOOLEAN, unique_clicks_only : BOOLEAN ]
    /\ csv_file \in {NoFile, StaleFile}
    /\ InitLocals

\* config = load_config(args.config), lines 142-146
LoadConfig ==
    /\ pc = "load_config"
    /\ \E ok \in BOOLEAN :
          IF ok THEN Continue("enforce_safety") ELSE Fail(ConfigErr)
    /\ UNCHANGED << args, config, locals, csv_file, counters >>

\* _enforce_safety without the test of --confirm
_enforce_safety_no_confirm(cfg, a) ==
    IF a.report_only THEN "ok"
    ELSE IF a.dry_run \/ cfg.dry_run THEN "ok"
    ELSE IF ~cfg.allow_live_send THEN "raise"
    ELSE "ok"

\* _enforce_safety(config, args): "ok" when it returns, "raise" on ConfigError
_enforce_safety(cfg, a) ==
    IF a.report_only THEN "ok"
    ELSE IF a.dry_run \/ cfg.dry_run THEN "ok"
    ELSE IF ~cfg.allow_live_send THEN "raise"
    ELSE IF a.confirm # CONFIRM_PHRASE THEN "raise"
    ELSE "ok"

\* lines 148-152
EnforceSafety ==
    /\ pc = "enforce_safety"
    /\ IF _enforce_safety(config, args) = "ok"
       THEN Continue("mode")
       ELSE Fail(SafetyErr)
    /\ UNCHANGED << args, config, locals, csv_file, counters >>

\* poll_interval taken as given, not clamped
Max_no_clamp(a, b) == a

Max(a, b) == IF a >= b THEN a ELSE b

\* the loop entered at its sleep: time.sleep at the top of the loop body
EnterReportOnly_sleep_first ==
    /\ pc = "mode"
    /\ args.report_only
    /\ IF args.campaign_id = 0
       THEN /\ Fail(CampaignIdErr)
            /\ UNCHANGED << poll_interval, remaining_polls >>
       ELSE /\ poll_interval' = Max(args.poll_interval, 0)
            /\ remaining_polls' = IF poll_interval' # 0 THEN args.poll_count ELSE 1
            /\ Continue(IF poll_interval' # 0 THEN "sleep" ELSE "fetch")
    /\ UNCHANGED << args, config, campaign, metrics, rows, csv_file, counters >>

\* lines 160-167: the report-only branch up to the loop
EnterReportOnly ==
    /\ pc = "mode"
    /\ args.report_only
    /\ IF args.campaign_id = 0
       THEN /\ Fail(CampaignIdErr)
            /\ UNCHANGED << poll_interval, remaining_polls >>
       ELSE /\ poll_interval' = Max(args.poll_interval, 0)
            /\ remaining_polls' = IF poll_interval' # 0 THEN args.poll_count ELSE 1
            /\ Continue("fetch")
    /\ UNCHANGED << args, config, campaign, metrics, rows, csv_file, counters >>

\* a failed fetch reported and the loop carried on to its sleep
Fetch_keeps_polling ==
    /\ pc = "fetch"
    /\ fetches < MaxFetches
    /\ fetches' = fetches + 1
    /\ \/ \E payload \in PollPayloads :
             /\ campaign' = payload
             /\ completed_seen' = completed_seen
                    + (IF Get(payload, "status", None) = "Completed" THEN 1 ELSE 0)
             /\ Continue("report")
       \/ /\ pc' = "sleep" /\ stderr' = FetchErr /\ UNCHANGED exit_code
          /\ UNCHANGED << campaign, completed_seen >>
    /\ UNCHANGED << args, config, poll_interval, remaining_polls, metrics, rows,
                    csv_file, reports, writes, sleeps, csv_before,
                    resolved, created >>

\* lines 170-174: the payload is the server's choice; GophishError ends the run
Fetch ==
    /\ pc = "fetch"
    /\ fetches < MaxFetches
    /\ fetches' = fetches + 1
    /\ \/ \E payload \in PollPayloads :
             /\ campaign' = payload
             /\ completed_seen' = completed_seen
                    + (IF Get(payload, "status", None) = "Completed" THEN 1 ELSE 0)
             /\ Continue("report")
       \/ /\ Fail(FetchErr)
          /\ UNCHANGED << campaign, completed_seen >>
    /\ UNCHANGED << args, config, poll_interval, remaining_polls, metrics, rows,
                    csv_file, reports, writes, sleeps, csv_before,
                    resolved, created >>

\* lines 176-181
Report ==
    /\ pc = "report"
    /\ metrics' = compute_metrics(campaign, config.unique_opens_only,
                                  config.unique_clicks_only)
    /\ reports' = reports + 1
    /\ Continue("export")
    /\ UNCHANGED << args, config, poll_interval, remaining_polls, campaign, rows,
                    csv_file, fetches, writes, sleeps, completed_seen, csv_before,
                    resolved, created >>

\* lines 184-187
Export ==
    /\ pc = "export"
    /\ IF Truthy(args.csv_out)
       THEN /\ rows' = build_recipient_rows(campaign)
            /\ csv_file' = export_csv(csv_file, rows')
            /\ writes' = writes + 1
       ELSE UNCHANGED << rows, csv_file, writes >>
    /\ Continue("decide")
    /\ UNCHANGED << args, config, poll_interval, remaining_polls, campaign,
                    metrics, fetches, reports, sleeps, completed_seen, csv_before,
                    resolved, created >>

\* the countdown stopping one poll late
decide_off_by_one(interval, remaining, status) ==
    IF interval = 0 THEN [stop |-> TRUE, remaining |-> remaining]
    ELSE IF remaining = 0
         THEN [stop |-> status = "Completed", remaining |-> remaining]
         ELSE [stop |-> remaining - 1 < 0, remaining |-> remaining - 1]

\* the status compared without regard to case
decide_any_case(interval, remaining, status) ==
    IF interval = 0 THEN [stop |-> TRUE, remaining |-> remaining]
    ELSE IF remaining = 0
         THEN [stop |-> status \in {"Completed", "completed"}, remaining |-> remaining]
         ELSE [stop |-> remaining - 1 <= 0, remaining |-> remaining - 1]

\* lines 189-199: "stop" is return 0, "sleep" falls through to time.sleep
decide(interval, remaining, status) ==
    IF interval = 0 THEN [stop |-> TRUE, remaining |-> remaining]
    ELSE IF remaining = 0
         THEN [stop |-> status = "Completed", remaining |-> remaining]
         ELSE [stop |-> remaining - 1 <= 0, remaining |-> remaining - 1]

Decide ==
    /\ pc = "decide"
    /\ LET d == decide(poll_interval, remaining_polls, Get(campaign, "status", None))
       IN /\ remaining_polls' = d.remaining
          /\ IF d.stop THEN Return0 ELSE Continue("sleep")
    /\ UNCHANGED << args, config, poll_interval, campaign, metrics, rows, csv_file,
                    counters >>

\* line 202, then back to the top of the loop
Sleep ==
    /\ pc = "sleep"
    /\ sleeps' = sleeps + 1
    /\ Continue("fetch")
    /\ UNCHANGED << args, config, locals, csv_file, fetches, reports, writes,
                    completed_seen, csv_before,
                    resolved, created >>

Next ==
    \/ LoadConfig
    \/ EnforceSafety
    \/ EnterReportOnly
    \/ Fetch
    \/ Report
    \/ Export
    \/ Decide
    \/ Sleep

Spec == Init /\ [][Next]_vars

\* ------------------------------------------------- the whole of run()
\* line 160, the test failing: run() goes on to the campaign
SkipReportOnly ==
    /\ pc = "mode"
    /\ ~args.report_only
    /\ Continue("build_payload")
    /\ UNCHANGED << args, config, locals, csv_file, counters >>

\* lines 204-208: _build_campaign_payload lists the groups, templates, pages
\* and sending profiles and finds each by name; any of it may raise GophishError
BuildPayload ==
    /\ pc = "build_payload"
    /\ resolved' = resolved + 1
    /\ \E ok \in BOOLEAN :
          IF ok THEN Continue("plan_or_create") ELSE Fail(ResolveErr)
    /\ UNCHANGED << args, config, locals, csv_file, fetches, reports, writes,
                    sleeps, completed_seen, csv_before, created >>

\* lines 210-212
PrintPlan ==
    /\ pc = "plan_or_create"
    /\ args.dry_run \/ config.dry_run
    /\ Return0
    /\ UNCHANGED << args, config, locals, csv_file, counters >>

\* lines 214-223: the call may raise GophishError
CreateCampaign ==
    /\ pc = "plan_or_create"
    /\ ~(args.dry_run \/ config.dry_run)
    /\ created' = created + 1
    /\ \E ok \in BOOLEAN : IF ok THEN Return0 ELSE Fail(CreateErr)
    /\ UNCHANGED << args, config, locals, csv_file, fetches, reports, writes,
                    sleeps, completed_seen, csv_before, resolved >>

\* run() under every combination of the flags and the config that decide
\* whether a campaign is sent; a confirmation is missing, exact or misspelt
Confirms == {"", CONFIRM_PHRASE, "i-understand-this-is-awareness"}

InitRun ==
    /\ args \in [ report_only : BOOLEAN, dry_run : BOOLEAN, confirm : Confirms,
                  campaign_id : CampaignIds, csv_out : {None},
                  poll_interval : {0, 5}, poll_count : {0, 1} ]
    /\ config \in [ allow_live_send : BOOLEAN, dry_run : BOOLEAN,
                    unique_opens_only : {TRUE}, unique_clicks_only : {TRUE} ]
    /\ csv_file = NoFile
    /\ InitLocals

NextRun ==
    \/ Next
    \/ SkipReportOnly
    \/ BuildPayload
    \/ PrintPlan
    \/ CreateCampaign

SpecRun == InitRun /\ [][NextRun]_vars

\* The metrics engine and the exporter on every bounded campaign: run() has
\* just fetched the campaign and is about to report and export it.
InitAfterFetch(events) ==
    /\ args = [ report_only |-> TRUE, dry_run |-> FALSE, confirm |-> "",
                campaign_id |-> 7, csv_out |-> "out.csv",
                poll_interval |-> 0, poll_count |-> 1 ]
    /\ config \in [ allow_live_send : {FALSE}, dry_run : {TRUE},
                    unique_opens_only : BOOLEAN, unique_clicks_only : BOOLEAN ]
    /\ csv_file = NoFile
    /\ pc = "report"
    /\ exit_code = -1
    /\ poll_interval = 0
    /\ remaining_polls = 1
    /\ \E n \in 0..MaxResults, k \in 0..MaxEvents :
          IsCampaign(campaign, "In progress", n, k, events)
    /\ metrics = EmptyDict
    /\ rows = <<>>
    /\ fetches = 1 /\ reports = 0 /\ writes = 0 /\ sleeps = 0
    /\ completed_seen = 0
    /\ stderr = ""
    /\ csv_before = csv_file
    /\ resolved = 0 /\ created = 0

InitMetrics == InitAfterFetch(MetricEvents)

NextMetrics == Report \/ Export

SpecMetrics == InitMetrics /\ [][NextMetrics]_vars

\* The same two steps on every bounded campaign whose events differ in their
\* time: the inputs of the per-recipient rows.
InitRows == InitAfterFetch(RowEvents)

SpecRows == InitRows /\ [][NextMetrics]_vars

\* ------------------------------------------------------ the polling loop
\* run() reached the polling loop (it got past the config, the safety check
\* and the --campaign-id check)
InLoop == pc \in {"fetch", "report", "export", "decide", "sleep"}
PollerRan == args.report_only /\ pc = "done" /\ stderr \in {"", FetchErr}

\* what one complete cycle leaves behind, n cycles done
CyclesDone(n) ==
    /\ fetches = n
    /\ reports = n
    /\ writes = (IF Truthy(args.csv_out) THEN n ELSE 0)

\* C1: with poll_interval > 0 and poll_count = N > 0 the poller never fetches
\* more than N times, goes on to sleep only while fewer than N cycles are done,
\* and, no fetch having failed, ends after exactly N fetch/report/export
\* cycles with exit code 0, whatever statuses it fetched.
C1_ExactlyPollCountCycles ==
    (args.poll_interval > 0 /\ args.poll_count > 0) =>
        /\ fetches <= args.poll_count
        /\ (pc = "sleep" => fetches < args.poll_count)
        /\ (PollerRan /\ stderr = "" => CyclesDone(args.poll_count) /\ exit_code = 0)

\* a run of MaxPollCount cycles every one of which fetched a "Completed" campaign
C1_Witness ==
    /\ args.poll_interval > 0 /\ args.poll_count = MaxPollCount
    /\ PollerRan /\ stderr = "" /\ exit_code = 0
    /\ fetches = MaxPollCount /\ completed_seen = MaxPollCount

\* C2: with poll_interval > 0 and poll_count = 0 the poller goes on (sleeps,
\* fetches again) only while no fetched campaign had status "Completed", so no
\* fetch follows a "Completed" one; and it returns 0 exactly when the campaign
\* it fetched last is the first and only one with status "Completed".
C2_StopsAtFirstCompleted ==
    (args.poll_interval > 0 /\ args.poll_count = 0) =>
        /\ completed_seen <= 1
        /\ (pc \in {"sleep", "fetch"} => completed_seen = 0)
        /\ (PollerRan /\ exit_code = 0 =>
                completed_seen = 1 /\ Get(campaign, "status", None) = "Completed")
        /\ (PollerRan /\ completed_seen = 1 =>
                exit_code = 0 /\ Get(campaign, "status", None) = "Completed")

\* stopped on the third fetch, the first to return "Completed"
C2_Witness ==
    /\ args.poll_interval > 0 /\ args.poll_count = 0
    /\ PollerRan /\ exit_code = 0
    /\ fetches = 3 /\ sleeps = 2 /\ completed_seen = 1

\* C3: with poll_interval <= 0 the poller fetches once, never sleeps, and
\* (the fetch not failing) ends after exactly one fetch/report/export cycle
\* with exit code 0, for every poll_count and every status fetched.
C3_ZeroIntervalRunsOnce ==
    (args.poll_interval <= 0) =>
        /\ fetches <= 1
        /\ sleeps = 0
        /\ pc # "sleep"
        /\ (PollerRan => fetches = 1)
        /\ (PollerRan /\ stderr = "" => CyclesDone(1) /\ exit_code = 0)

\* a negative interval with poll_count = 0 and a campaign that is not completed
C3_Witness ==
    /\ args.poll_interval < 0 /\ args.poll_count = 0
    /\ PollerRan /\ exit_code = 0 /\ fetches = 1
    /\ Get(campaign, "status", None) # "Completed"

\* the lines export_csv writes for the rows of campaign c: the header, then
\* one line a recipient
SnapshotOf(c, lines) ==
    LET rs == build_recipient_rows(c)
    IN /\ Len(lines) = 1 + Len(rs)
       /\ lines[1] = fieldnames
       /\ \A i \in 1..Len(rs) : lines[i + 1] = CsvLine(rs[i])

\* C4: once a fetch has failed the run is over with exit code 1, and the
\* failing cycle did nothing but fetch: every report, CSV write and sleep
\* belongs to an earlier, successful cycle; the CSV file is as the last
\* successful cycle wrote it, or as the run found it when the first fetch failed.
C4_FetchFailureAborts ==
    (stderr = FetchErr) =>
        /\ pc = "done" /\ exit_code # 0
        /\ reports = fetches - 1
        /\ sleeps = fetches - 1
        /\ writes = (IF Truthy(args.csv_out) THEN fetches - 1 ELSE 0)
        /\ (writes = 0 => csv_file = csv_before)
        /\ (writes > 0 => csv_file.exists /\ SnapshotOf(campaign, csv_file.lines))

\* the second fetch failed, after a cycle that wrote the CSV
C4_Witness ==
    /\ stderr = FetchErr /\ fetches = 2 /\ writes = 1 /\ reports = 1
    /\ csv_file # csv_before

\* C5: with --csv-out set, from the export of a cycle until the next fetch
\* returns (and when the run has ended) the file holds exactly the header and
\* the rows of the campaign fetched last, whatever it held before.
C5_CsvIsLastSnapshot ==
    (Truthy(args.csv_out) /\ reports > 0 /\ pc \in {"decide", "sleep", "fetch", "done"}) =>
        /\ csv_file.exists
        /\ SnapshotOf(campaign, csv_file.lines)
        /\ writes = reports

\* a stale file, overwritten in three cycles, the last of a campaign without
\* recipients
C5_Witness ==
    /\ Truthy(args.csv_out) /\ csv_before = StaleFile
    /\ pc = "done" /\ writes = 3
    /\ csv_file.lines = <<fieldnames>>

\* C10: no sleep precedes the first fetch and each sleep is between two
\* fetches: at the top of the loop as many sleeps as fetches have happened,
\* inside a cycle and after the run one fewer, so the cycle the poller stops
\* on is not followed by a sleep.
C10_SleepOnlyBetweenCycles ==
    /\ (pc = "fetch" => sleeps = fetches)
    /\ (pc \in {"report", "export", "decide", "sleep"} => sleeps = fetches - 1)
    /\ (PollerRan => sleeps = fetches - 1)
    /\ (~InLoop /\ ~PollerRan => sleeps = 0 /\ fetches = 0)

\* a normal end after three fetches and two sleeps
C10_Witness ==
    /\ PollerRan /\ exit_code = 0 /\ stderr = ""
    /\ fetches = 3 /\ sleeps = 2 /\ args.poll_count = 3

\* ---------------------------------------------------- the metrics engine
\* metrics holds compute_metrics of the campaign in hand
MetricsComputed == pc \in {"export", "decide"}

ResultsOf(c) == Get(c, "results", <<>>)
EventsAt(c, i) == Get(ResultsOf(c)[i], "events", <<>>)

\* where the events of type t are: <<recipient, position>>
Positions(c, t) ==
    UNION { { <<i, j>> : j \in { k \in 1..Len(EventsAt(c, i)) :
                                   Get(EventsAt(c, i)[k], "type", None) = t } } :
            i \in 1..Len(ResultsOf(c)) }

EmailAt(c, p) == Get(EventsAt(c, p[1])[p[2]], "email", None)

\* the distinct non-empty emails on the events of type t
DistinctEmails(c, t) == { EmailAt(c, p) : p \in Positions(c, t) } \ {None, ""}

\* every event of type t carries the email of its own recipient, or none
OwnEmails(c, t) ==
    \A p \in Positions(c, t) :
        EmailAt(c, p) \in {None, "", Get(ResultsOf(c)[p[1]], "email", "")}

InPercent(rate) == 0 <= rate.num /\ rate.num <= 100 * rate.den

\* C6 as stated: with total_recipients > 0 both rates lie in [0,100], that is
\* opened <= total_recipients and clicked <= total_recipients, for every
\* setting of the two flags.
C6_RatesWithin100 ==
    (MetricsComputed /\ metrics.total_recipients > 0) =>
        /\ metrics.opened <= metrics.total_recipients
        /\ metrics.clicked <= metrics.total_recipients
        /\ InPercent(metrics.open_rate)
        /\ InPercent(metrics.click_rate)

\* C6 as amended: with total_recipients > 0 both rates are >= 0; open_rate is
\* at most 100 (opened <= total_recipients) when unique_opens_only is set and
\* every "Opened Email" event carries the email of its own recipient or none,
\* and click_rate likewise with unique_clicks_only and "Clicked Link".
C6_RatesBounded ==
    (MetricsComputed /\ metrics.total_recipients > 0) =>
        /\ metrics.open_rate.num >= 0 /\ metrics.open_rate.den > 0
        /\ metrics.click_rate.num >= 0 /\ metrics.click_rate.den > 0
        /\ (config.unique_opens_only /\ OwnEmails(campaign, OPENED) =>
                /\ metrics.opened <= metrics.total_recipients
                /\ InPercent(metrics.open_rate))
        /\ (config.unique_clicks_only /\ OwnEmails(campaign, CLICKED) =>
                /\ metrics.clicked <= metrics.total_recipients
                /\ InPercent(metrics.click_rate))

\* one recipient who opened twice, counted once: an open rate of 100
C6_Witness ==
    /\ MetricsComputed /\ config.unique_opens_only
    /\ metrics.total_recipients = 1
    /\ Cardinality(Positions(campaign, OPENED)) = 2
    /\ OwnEmails(campaign, OPENED)
    /\ metrics.opened = 1
    /\ metrics.open_rate = [num |-> 100, den |-> 1]

\* C7: for one payload the unique-mode opened count is at most the raw-mode
\* one, and so for clicked; the count reported is the one its flag selects.
C7_UniqueAtMostRaw ==
    MetricsComputed =>
        LET unique == compute_metrics(campaign, TRUE, TRUE)
            raw == compute_metrics(campaign, FALSE, FALSE)
        IN /\ unique.opened <= raw.opened
           /\ unique.clicked <= raw.clicked
           /\ metrics.opened =
                (IF config.unique_opens_only THEN unique.opened ELSE raw.opened)
           /\ metrics.clicked =
                (IF config.unique_clicks_only THEN unique.clicked ELSE raw.clicked)

\* two clicks of one address: the unique count is strictly smaller
C7_Witness ==
    /\ MetricsComputed /\ config.unique_clicks_only /\ ~config.unique_opens_only
    /\ metrics.clicked = 1
    /\ compute_metrics(campaign, FALSE, FALSE).clicked = 2

\* the example of the specification: one result, two "Opened Email" events of
\* a@x
TwoOpensOfOne ==
    [ results |-> << [ events |-> << [type |-> OPENED, email |-> "a@x"],
                                     [type |-> OPENED, email |-> "a@x"] >> ] >> ]

\* C8: opened is the number of distinct non-empty emails on the "Opened Email"
\* events of all results when unique_opens_only is set, and the number of
\* "Opened Email" events otherwise; clicked likewise with "Clicked Link" and
\* unique_clicks_only.  Two opens of a@x count 1 and 2.
C8_CountingRule ==
    /\ MetricsComputed =>
        /\ metrics.opened =
             (IF config.unique_opens_only
              THEN Cardinality(DistinctEmails(campaign, OPENED))
              ELSE Cardinality(Positions(campaign, OPENED)))
        /\ metrics.clicked =
             (IF config.unique_clicks_only
              THEN Cardinality(DistinctEmails(campaign, CLICKED))
              ELSE Cardinality(Positions(campaign, CLICKED)))
    /\ compute_metrics(TwoOpensOfOne, TRUE, TRUE).opened = 1
    /\ compute_metrics(TwoOpensOfOne, FALSE, TRUE).opened = 2

\* two opens, one without an email and one with an empty one: none counted in
\* unique mode
C8_Witness ==
    /\ MetricsComputed /\ config.unique_opens_only
    /\ Cardinality(Positions(campaign, OPENED)) = 2
    /\ { EmailAt(campaign, p) : p \in Positions(campaign, OPENED) } = {None, ""}
    /\ metrics.opened = 0

\* C9: with no results, the list empty or the key missing, the metrics are all
\* zero and both rates are 0.0, whatever the flags: nothing is divided by zero.
C9_NoResultsAllZero ==
    (MetricsComputed /\ ResultsOf(campaign) = <<>>) =>
        /\ metrics.total_recipients = 0
        /\ metrics.opened = 0
        /\ metrics.clicked = 0
        /\ metrics.open_rate.den # 0 /\ metrics.open_rate.num = 0
        /\ metrics.click_rate.den # 0 /\ metrics.click_rate.num = 0

\* a payload without the "results" key, counted in raw mode
C9_Witness ==
    /\ MetricsComputed
    /\ "results" \notin DOMAIN campaign
    /\ ~config.unique_opens_only /\ ~config.unique_clicks_only
    /\ metrics.total_recipients = 0

\* ------------------------------------------------- the per-recipient rows
\* rows holds build_recipient_rows of the campaign in hand
RowsBuilt == pc = "decide" /\ writes > 0

\* the events of recipient i of type t that carry a time value (the key is
\* there and its value is not empty)
TimedPositions(c, i, t) ==
    { j \in 1..Len(EventsAt(c, i)) :
        /\ Get(EventsAt(c, i)[j], "type", None) = t
        /\ "time" \in DOMAIN EventsAt(c, i)[j]
        /\ EventsAt(c, i)[j].time # "" }

\* C11: there is one row a result, in order; its open_count is the number of
\* the result's "Opened Email" events that carry a time value and its
\* click_count that of its "Clicked Link" events that do; a result without
\* events has both 0 and the two first times and the last event's type and
\* time empty.  This holds under every setting of unique_opens_only and
\* unique_clicks_only: the rows are the same whatever the flags.
C11_RowCountsAreRaw ==
    RowsBuilt =>
        /\ Len(rows) = Len(ResultsOf(campaign))
        /\ \A i \in 1..Len(rows) :
              /\ rows[i].open_count = Cardinality(TimedPositions(campaign, i, OPENED))
              /\ rows[i].click_count = Cardinality(TimedPositions(campaign, i, CLICKED))
              /\ (EventsAt(campaign, i) = <<>> =>
                    /\ rows[i].open_count = 0 /\ rows[i].click_count = 0
                    /\ rows[i].first_open_time = "" /\ rows[i].first_click_time = ""
                    /\ rows[i].last_event_type = "" /\ rows[i].last_event_time = "")

\* unique mode, one recipient who opened twice at known times: the metrics
\* count one open, the row two
C11_Witness ==
    /\ RowsBuilt
    /\ config.unique_opens_only /\ config.unique_clicks_only
    /\ Len(rows) = 1
    /\ rows[1].open_count = 2
    /\ metrics.opened = 1

\* a recipient without events next to one whose only open has no time
C11_WitnessNoEvents ==
    /\ RowsBuilt
    /\ Len(rows) = 2
    /\ EventsAt(campaign, 1) = <<>>
    /\ Cardinality(Positions(campaign, OPENED)) = 1
    /\ rows[2].open_count = 0
    /\ rows[2].last_event_type = OPENED

\* ------------------------------------------------------ the safety gate
\* the four conditions of a live send, read off the flags and the config
LiveSendConfirmed ==
    /\ ~args.report_only
    /\ ~args.dry_run /\ ~config.dry_run
    /\ config.allow_live_send
    /\ args.confirm = CONFIRM_PHRASE

\* C12: create_campaign is called, and the place of its call is reached, only
\* when --report-only is not set, neither --dry-run nor config.dry_run is set,
\* allow_live_send is true and --confirm is exactly the phrase; it is called
\* at most once.  With --report-only run() never resolves resources nor
\* creates a campaign: it ends on the config error, or in the polling branch
\* (on the missing --campaign-id, on a failed fetch, or with exit code 0).
C12_CreateOnlyWhenConfirmed ==
    /\ created <= 1
    /\ (created > 0 => LiveSendConfirmed)
    /\ (pc = "plan_or_create" /\ ~LiveSendConfirmed => args.dry_run \/ config.dry_run)
    /\ (args.report_only =>
          /\ resolved = 0 /\ created = 0
          /\ pc \notin {"build_payload", "plan_or_create"}
          /\ (pc = "done" => stderr \in {ConfigErr, CampaignIdErr, FetchErr, ""})
          /\ (pc = "done" /\ stderr = "" => fetches > 0 /\ exit_code = 0))

\* a campaign created: every condition held
C12_Witness ==
    /\ created = 1 /\ resolved = 1
    /\ pc = "done" /\ exit_code = 0
    /\ LiveSendConfirmed

\* allow_live_send and no dry run, but the phrase misspelt: stopped at the gate
C12_WitnessBlocked ==
    /\ ~args.report_only /\ ~args.dry_run /\ ~config.dry_run
    /\ config.allow_live_send /\ args.confirm = "i-understand-this-is-awareness"
    /\ pc = "done" /\ stderr = SafetyErr /\ exit_code = 1
    /\ resolved = 0 /\ created = 0

====
